---- MODULE Spec2Model ----
(***************************************************************************)
(* A model of the package distribution code of eups:                       *)
(*   python/eups/distrib/builder.py   (the "builder" mechanism and the     *)
(*                                     build-file template expander)       *)
(*   python/eups/distrib/eupspkg.py   (the "eupspkg" mechanism)            *)
(*                                                                         *)
(* Text is modelled as sequences of one-character strings, so that         *)
(* formatting, stripping, prefix tests and slicing are computed as the     *)
(* code computes them.                                                     *)
(*                                                                         *)
(* The module holds seven specifications over one set of variables:        *)
(*   SpecCreate     createPackage / packageCreated of both mechanisms      *)
(*   SpecLookup     the builder's createPackage under every build file     *)
(*                  path                                                   *)
(*   SpecParse      parseDistID of both mechanisms                         *)
(*   SpecInstall    installPackage of both mechanisms and the run of the   *)
(*                  generated shell script                                 *)
(*   SpecCallbacks  the BuildfilePatchCallbacks registry                   *)
(*   SpecExpand     expandBuildFile, line by line and token by token       *)
(*   SpecRoots      expandBuildFile as createPackage calls it, under every *)
(*                  source of CVSROOT and SVNROOT                          *)
(***************************************************************************)
EXTENDS Integers, Sequences, FiniteSets, TLC

VARIABLES
    \* ---- the Eups object and the server tree (createPackage) ----
    force,          \* Eups.force
    noaction,       \* Eups.noaction
    allowIncomplete,\* Distrib.allowIncomplete of the builder
    buildFilePath,  \* Distrib.buildFilePath of the builder, a text
    buildFiles,     \* the directories that hold a file <product>.build
    buildsDir,      \* <serverDir>/builds exists
    builds,         \* file name -> file, the files of <serverDir>/builds
    productsDir,    \* <serverDir>/products exists
    products,       \* file name -> file, the files of <serverDir>/products
    tmpdirs,        \* number of temporary package directories left on disk
    ncalls,         \* number of createPackage calls made (also the write stamp)
    call,           \* what the latest createPackage call did
    prev,           \* what the createPackage call before it did
    parsed,         \* the latest parseDistID call: its argument and result
    \* ---- installPackage and the generated script ----
    inst,           \* the installPackage call in progress or just finished
    ran,            \* the script steps executed so far, in order
    ninst,          \* number of installPackage calls made
    \* ---- the callback registry ----
    callbacks,      \* BuildfilePatchCallbacks.callbacks (system)
    user_callbacks, \* BuildfilePatchCallbacks.user_callbacks
    regLog,         \* the add() calls still in force, in call order
    applied,        \* the latest apply(line): its argument and result
    \* ---- expandBuildFile ----
    xp              \* the expansion in progress: position, line, output

createVars == <<force, noaction, allowIncomplete, buildFilePath, buildFiles,
                buildsDir, builds, productsDir, products,
                tmpdirs, ncalls, call, prev, parsed>>
instVars   == <<inst, ran, ninst>>
cbVars     == <<callbacks, user_callbacks, regLog, applied>>
vars       == <<force, noaction, allowIncomplete, buildFilePath, buildFiles,
                buildsDir, builds, productsDir, products,
                tmpdirs, ncalls, call, prev, parsed, inst, ran, ninst,
                callbacks, user_callbacks, regLog, applied, xp>>

----------------------------------------------------------------------------
(* Bounds *)

MaxCalls == 2        \* createPackage calls in one behaviour
MaxInstalls == 1     \* installPackage calls in one behaviour
MaxSetups == 2       \* caller-supplied setup commands of one install
MaxCallbacks == 2    \* callbacks registered in one scope
MaxLines == 2        \* lines of a build-file template
MaxWarnings == 3     \* "Unexpected modifier" warnings kept for one token

----------------------------------------------------------------------------
(* Text *)

\* Python's None, kept apart from every text
NoneVal == <<"<None>">>

\* "%s" % x
Fmt(x) == IF x = NoneVal THEN <<"N", "o", "n", "e">> ELSE x

\* the truth value of a text or None
Truthy(v) == v # NoneVal /\ v # <<>>

IsSpace(c) == c \in {" ", "\t", "\n"}

RECURSIVE LStrip(_)
LStrip(s) == IF s # <<>> /\ IsSpace(Head(s)) THEN LStrip(Tail(s)) ELSE s

RECURSIVE RStrip(_)
RStrip(s) ==
    IF s # <<>> /\ IsSpace(s[Len(s)]) THEN RStrip(SubSeq(s, 1, Len(s) - 1)) ELSE s

\* str.strip()
Strip(s) == RStrip(LStrip(s))

\* str.startswith(prefix)
StartsWith(s, prefix) ==
    /\ Len(s) >= Len(prefix)
    /\ SubSeq(s, 1, Len(prefix)) = prefix

BuildPrefix   == <<"b", "u", "i", "l", "d", ":">>
EupspkgPrefix == <<"e", "u", "p", "s", "p", "k", "g", ":">>
BuildSuffix   == <<".", "b", "u", "i", "l", "d">>
EupspkgSuffix == <<".", "e", "u", "p", "s", "p", "k", "g">>

\* the products, versions and letter versions that calls are made with
Products == {<<"f", "o">>}
Versions == {<<"1">>, <<"2">>}
LetterVersions == {<<"1">>, <<"1", "g">>, NoneVal}

----------------------------------------------------------------------------
(* Distribution identifiers *)

\* a parseDistID that does not strip the identifier
MutParseDistIDWith(prefix, distID) ==
    IF distID # NoneVal /\ distID # <<>>
    THEN IF StartsWith(distID, prefix)
         THEN SubSeq(distID, Len(prefix) + 1, Len(distID))
         ELSE NoneVal
    ELSE NoneVal

\* builder.py:69-83 and eupspkg.py:366-380: parseDistID, with the prefix of
\* the mechanism
ParseDistIDWith(prefix, distID) ==
    IF distID # NoneVal /\ distID # <<>>
    THEN LET s == Strip(distID)
         IN  IF StartsWith(s, prefix)
             THEN SubSeq(s, Len(prefix) + 1, Len(s))
             ELSE NoneVal
    ELSE NoneVal

BuilderParseDistID(distID) == ParseDistIDWith(BuildPrefix, distID)
EupspkgParseDistID(distID) == ParseDistIDWith(EupspkgPrefix, distID)

\* builder = "%s-%s.build" % (productName, letterVersionName)
BuilderFileName(product, letterVersion) ==
    Fmt(product) \o <<"-">> \o Fmt(letterVersion) \o BuildSuffix

\* "%s-%s.eupspkg" % (product, version)
EupspkgFileName(product, version) ==
    Fmt(product) \o <<"-">> \o Fmt(version) \o EupspkgSuffix

\* the identifiers parseDistID is called with: blanks, a head, a body and
\* blanks again, and None
DistIDs ==
    { pad \o head \o body \o tail :
        pad \in {<<>>, <<" ">>, <<"\t", " ">>},
        head \in {BuildPrefix, EupspkgPrefix, <<"b", "u", "i", "l", "d">>,
                  <<"x">> \o BuildPrefix, <<>>},
        body \in {<<>>, <<"f">>, <<"f", "o", "-", "1", ".", "b">>,
                  <<"f", " ", "o">>, EupspkgPrefix},
        tail \in {<<>>, <<"\n">>, <<" ">>} }
    \cup {NoneVal}

NotParsed == [mech |-> "none", distID |-> NoneVal, result |-> NoneVal]

\* parseDistID of one of the mechanisms is called
ParseDistID ==
    /\ \E mech \in {"builder", "eupspkg"}, distID \in DistIDs :
          parsed' = [mech |-> mech, distID |-> distID,
                     result |-> IF mech = "builder"
                                THEN BuilderParseDistID(distID)
                                ELSE EupspkgParseDistID(distID)]
    /\ UNCHANGED <<force, noaction, allowIncomplete, buildFilePath, buildFiles,
                   buildsDir, builds, productsDir, products,
                   tmpdirs, ncalls, call, prev>>
    /\ UNCHANGED <<inst, ran, ninst, callbacks, user_callbacks, regLog,
                   applied, xp>>

BuilderGetDistIdForPackage(product, version) ==
    BuildPrefix \o Fmt(product) \o <<"-">> \o Fmt(version) \o BuildSuffix

EupspkgGetDistIdForPackage(product, version) ==
    EupspkgPrefix \o Fmt(product) \o <<"-">> \o Fmt(version) \o EupspkgSuffix

----------------------------------------------------------------------------
(* The server tree *)

BuildNames ==
    {BuilderFileName(p, lv) : p \in Products, lv \in LetterVersions \cup Versions}
PkgNames == {EupspkgFileName(p, v) : p \in Products, v \in Versions}

\* A file: absent, or opened for writing and never finished ("partial"),
\* or completely written; stamp tells one write from another.
Absent == [st |-> "absent", stamp |-> 0]
Partial(n) == [st |-> "partial", stamp |-> n]
Complete(n) == [st |-> "complete", stamp |-> n]

\* os.path.exists / os.access(f, R_OK) of a file this code wrote
Exists(f) == f.st # "absent"

\* packageCreated of the builder
BuilderPackageCreated(product, version) ==
    LET location == BuilderParseDistID(BuilderGetDistIdForPackage(product, version))
    IN  /\ location \in DOMAIN builds
        /\ Exists(builds[location])

\* packageCreated of eupspkg
EupspkgPackageCreated(product, version) ==
    LET location == EupspkgParseDistID(EupspkgGetDistIdForPackage(product, version))
    IN  /\ location \in DOMAIN products
        /\ Exists(products[location])

----------------------------------------------------------------------------
(* Collaborators outside builder.py and eupspkg.py *)

\* eupsServer.system(cmd, noaction): run cmd in a shell; with noaction only
\* print it; a non-zero exit status raises OSError.
System(exitStatus, noact) ==
    IF noact THEN "ok"
    ELSE IF exitStatus = 0 THEN "ok" ELSE "OSError"

\* hooks.loadCustomization(verbose, log) called with the keyword arguments
\* kwargs: a keyword it does not declare raises TypeError.
LoadCustomization(kwargs) ==
    IF kwargs \subseteq {"verbose", "log"} THEN "ok" ELSE "TypeError"

----------------------------------------------------------------------------
(* createPackage *)

\* ---- find_file_on_path ----

\* the directory ups of the installed product, and two other directories
UpsDir == <<"u", "p", "s">>
OtherDir == <<"d">>
SubDir == <<"d", "/", "s">>
Dirs == {UpsDir, OtherDir, SubDir}

\* the sets of directories in which <product>.build is put
BuildFileLayouts == {{}, {UpsDir}, {UpsDir, OtherDir}, {SubDir}}

\* the values of the option buildFilePath: "" (the default), ":", "d",
\* "d:", "d%"
BuildFilePaths == {<<>>, <<":">>, <<"d">>, <<"d", ":">>, <<"d", "%">>}

\* str.split(":")
RECURSIVE Split(_)
Split(s) ==
    IF \E i \in 1..Len(s) : s[i] = ":"
    THEN LET i == CHOOSE i \in 1..Len(s) :
                     s[i] = ":" /\ \A k \in 1..(i - 1) : s[k] # ":"
         IN  <<SubSeq(s, 1, i - 1)>> \o Split(SubSeq(s, i + 1, Len(s)))
    ELSE <<s>>

\* builder.py:445  re.match(bd, r"\*%"): bd is the pattern, and the text it
\* is matched with is a backslash, a star and a percent sign; a bd that has
\* no special character matches when this text begins with bd
RecursiveElement(bd) == StartsWith(<<"\\", "*", "%">>, bd)

\* builder.py:450-460  os.walk(bd): the first directory, from bd downwards,
\* that holds the file
FoundInWalk(bd, files) ==
    IF bd \in files THEN bd
    ELSE IF \E d \in files : StartsWith(d, bd \o <<"/">>)
    THEN CHOOSE d \in files : StartsWith(d, bd \o <<"/">>)
    ELSE NoneVal

\* builder.py:436-469, the loop over the elements of the path
RECURSIVE FindOnElements(_, _, _)
FindOnElements(els, auxDir, files) ==
    IF els = <<>> THEN NoneVal
    ELSE IF Head(els) = <<>> /\ ~Truthy(auxDir)
    THEN FindOnElements(Tail(els), auxDir, files)
    ELSE LET bd0 == IF Head(els) = <<>> THEN auxDir ELSE Head(els)
             rec == RecursiveElement(bd0)
             bd == IF rec THEN SubSeq(bd0, 1, Len(bd0) - 1) ELSE bd0
             walked == IF rec THEN FoundInWalk(bd, files) ELSE NoneVal
         IN  IF walked # NoneVal THEN walked
             ELSE IF bd \in files THEN bd
             ELSE FindOnElements(Tail(els), auxDir, files)

\* builder.py:429-469  find_file_on_path: the directory in which the file
\* was found, or None
FindFileOnPath(path, auxDir, files) ==
    IF path = <<>> THEN NoneVal
    ELSE FindOnElements(Split(path), auxDir, files)

NoCall ==
    [mech |-> "none", product |-> <<>>, version |-> <<>>, letterVersion |-> <<>>,
     buildFile |-> NoneVal,
     overwrite |-> FALSE, name |-> <<>>, before |-> Absent, after |-> Absent,
     status |-> "none", exc |-> "", result |-> NoneVal, outcome |-> "",
     opened |-> FALSE, expandRan |-> FALSE, createRan |-> FALSE, tarRan |-> FALSE]

\* the test of line 225 without Eups.force
MutBuilderNotRecreating(f, overwrite) == Exists(f) /\ ~overwrite

\* builder.py:225  os.access(full_builder, os.R_OK) and not (overwrite or self.Eups.force)
BuilderNotRecreating(f, overwrite) == Exists(f) /\ ~(overwrite \/ force)

\* eupspkg.py:481  os.path.exists(tfn) and not (overwrite or self.Eups.force)
EupspkgNotRecreating(f, overwrite) == Exists(f) /\ ~(overwrite \/ force)

\* What the builder's createPackage does to full_builder and how it ends.
\*   buildFile  the directory where find_file_on_path located
\*              <product>.build, or None
\*   env        what the file system and the expansion do in this call:
\*     "mkdirFails"  os.makedirs(builderDir) fails
\*     "ifdFails"    the build file cannot be opened for reading
\*     "ofdFails"    full_builder cannot be opened for writing
\*     "IOError"     expandBuildFile raises IOError
\*     "Other"       expandBuildFile raises an exception that is neither
\*                   IOError nor RuntimeError, such as re.error from a
\*                   sub() pattern or a callback's own error
\*     "ok"          none of these
BuilderCreate(product, versionName, letterVersion, overwrite, buildFile, env, stamp) ==
    LET builder == BuilderFileName(product, letterVersion)
        f == builds[builder]
        id == BuildPrefix \o builder
        base == [NoCall EXCEPT !.mech = "builder", !.product = product,
                    !.version = versionName, !.letterVersion = letterVersion,
                    !.overwrite = overwrite, !.name = builder,
                    !.buildFile = buildFile,
                    !.before = f, !.after = f]
        raise(e, r) == [r EXCEPT !.status = "raise", !.exc = e]
        return(o, r) == [r EXCEPT !.status = "id", !.result = id, !.outcome = o]
    IN  IF buildFile = NoneVal
        THEN \* lines 183-186: the template.build lookup
             IF LoadCustomization({"verbose", "path", "filename", "execute"}) = "TypeError"
             THEN [dir |-> buildsDir, c |-> raise("TypeError", base)]
             \* lines 193-215: no build file
             ELSE IF allowIncomplete
             THEN [dir |-> buildsDir, c |-> [base EXCEPT !.status = "None"]]
             ELSE [dir |-> buildsDir, c |-> raise("RuntimeError", base)]
        ELSE IF ~buildsDir /\ env = "mkdirFails"
        THEN [dir |-> FALSE, c |-> raise("RuntimeError", base)]
        ELSE IF BuilderNotRecreating(f, overwrite)
        THEN [dir |-> TRUE, c |-> return("skipped", base)]
        ELSE IF noaction
        THEN [dir |-> TRUE, c |-> return("dryrun", base)]
        ELSE IF env = "ifdFails"
        THEN [dir |-> TRUE, c |-> raise("RuntimeError", base)]
        ELSE IF env = "ofdFails"
        THEN [dir |-> TRUE, c |-> raise("RuntimeError", base)]
        ELSE LET o == [base EXCEPT !.opened = TRUE, !.expandRan = TRUE]
             IN  CASE env = "IOError" ->
                        \* lines 261-266: unlink, then RuntimeError
                        [dir |-> TRUE,
                         c |-> raise("RuntimeError", [o EXCEPT !.after = Absent])]
                   [] env = "Other" ->
                        \* not an IOError: nothing unlinks full_builder
                        [dir |-> TRUE,
                         c |-> raise("Other", [o EXCEPT !.after = Partial(stamp)])]
                   [] OTHER ->
                        [dir |-> TRUE,
                         c |-> return("written", [o EXCEPT !.after = Complete(stamp)])]

BuilderEnvs == {"ok", "mkdirFails", "ifdFails", "ofdFails", "IOError", "Other"}

BuilderCreatePackage ==
    /\ ncalls < MaxCalls
    /\ \E product \in Products, versionName \in Versions,
          letterVersion \in LetterVersions, overwrite \in BOOLEAN, env \in BuilderEnvs :
          LET r == BuilderCreate(product, versionName, letterVersion, overwrite,
                                 FindFileOnPath(buildFilePath, UpsDir, buildFiles),
                                 env, ncalls + 1)
          IN  /\ buildsDir' = r.dir
              /\ builds' = [builds EXCEPT ![r.c.name] = r.c.after]
              /\ call' = r.c
    /\ prev' = call
    /\ ncalls' = ncalls + 1
    /\ UNCHANGED <<force, noaction, allowIncomplete, buildFilePath, buildFiles,
                   productsDir, products, tmpdirs, parsed>>
    /\ UNCHANGED <<instVars, cbVars, xp>>

\* What eupspkg's createPackage does to tfn and how it ends.
\*   env.create  exit status of "pkgbuild ... create"
\*   env.tar     exit status of "tar czf tfn ..."; 3 stands for a failure
\*               of os.makedirs(productsDir) before it
EupspkgCreate(product, version, overwrite, env, stamp) ==
    LET name == EupspkgFileName(product, version)
        f == products[name]
        distid == EupspkgPrefix \o name
        base == [NoCall EXCEPT !.mech = "eupspkg", !.product = product,
                    !.version = version, !.letterVersion = version,
                    !.overwrite = overwrite, !.name = name,
                    !.before = f, !.after = f,
                    !.createRan = TRUE]     \* line 470 comes first
        raise(e, r) == [r EXCEPT !.status = "raise", !.exc = e]
        return(o, r) == [r EXCEPT !.status = "id", !.result = distid, !.outcome = o]
    IN  IF System(env.create, FALSE) = "OSError"
        THEN [dir |-> productsDir, c |-> raise("OSError", base)]
        ELSE IF ~productsDir /\ env.tar = 3
        THEN [dir |-> FALSE, c |-> raise("RuntimeError", base)]
        ELSE IF EupspkgNotRecreating(f, overwrite)
        THEN [dir |-> TRUE, c |-> return("skipped", base)]
        ELSE IF noaction
        THEN [dir |-> TRUE, c |-> return("dryrun", base)]
        ELSE LET o == [base EXCEPT !.opened = TRUE, !.tarRan = TRUE]
             IN  IF System(env.tar, FALSE) = "OSError"
                 THEN \* lines 493-498: unlink, then RuntimeError
                      [dir |-> TRUE,
                       c |-> raise("RuntimeError", [o EXCEPT !.after = Absent])]
                 ELSE [dir |-> TRUE,
                       c |-> return("written", [o EXCEPT !.after = Complete(stamp)])]

EupspkgEnvs == [create : {0, 1}, tar : {0, 2, 3}]

\* eupspkg.py:450  pkgdir0 = tempfile.mkdtemp(suffix='.eupspkg')
MkdTemp(n) == n + 1

\* eupspkg.py:500  shutil.rmtree(pkgdir0)
RmTree(n) == n - 1

\* a removal that is written after the try block: an exception passes it by
MutEupspkgFinally(n, status) == IF status = "raise" THEN n ELSE RmTree(n)

\* eupspkg.py:499-500  finally: whichever way the try block was left
EupspkgFinally(n, status) == RmTree(n)

\* the temporary directories on disk after a createPackage that found n of
\* them and ended as c
TmpdirsAfterCreate(n, c) == EupspkgFinally(MkdTemp(n), c.status)

EupspkgCreatePackage ==
    /\ ncalls < MaxCalls
    /\ \E product \in Products, version \in Versions,
          overwrite \in BOOLEAN, env \in EupspkgEnvs :
          LET r == EupspkgCreate(product, version, overwrite, env, ncalls + 1)
          IN  /\ productsDir' = r.dir
              /\ products' = [products EXCEPT ![r.c.name] = r.c.after]
              /\ call' = r.c
              /\ tmpdirs' = TmpdirsAfterCreate(tmpdirs, r.c)
    /\ prev' = call
    /\ ncalls' = ncalls + 1
    /\ UNCHANGED <<force, noaction, allowIncomplete, buildFilePath, buildFiles,
                   buildsDir, builds, parsed>>
    /\ UNCHANGED <<instVars, cbVars, xp>>

----------------------------------------------------------------------------
(* The scripts that installPackage generates, and the shell that runs them *)

\* A script is a sequence of commands.  Each command is a record:
\*   name   the command, a sequence of words
\*   and    the command is followed by "&&"
\*   guard  n # 0 when the command is written "( command ) || exit n"

Cmd(name) == [name |-> name, and |-> FALSE, guard |-> 0]
AndCmd(name) == [name |-> name, and |-> TRUE, guard |-> 0]
Guarded(name, n) == [name |-> name, and |-> FALSE, guard |-> n]

\* the commands a caller may pass as setups
SetupCmds == {<<"setup", "a">>, <<"setup", "b">>}

RECURSIVE SeqsUpTo(_, _)
SeqsUpTo(S, n) ==
    IF n = 0 THEN {<<>>}
    ELSE LET shorter == SeqsUpTo(S, n - 1)
         IN  shorter \cup {Append(q, x) : q \in shorter, x \in S}

SetupLists == SeqsUpTo(SetupCmds, MaxSetups)

\* setups=None, the declared default, kept apart from every list of commands
NoSetups == <<NoneVal>>

\* the exit status a shell reports for "exit n": n modulo 256
ExitStatus(n) == n % 256

\* eupspkg.py:609-624, the exit code written after each pkgbuild verb
FetchCode   == -1
PrepCode    == -2
ConfigCode  == -3
MutBuildCode == ConfigCode      \* the build verb with the code of config
BuildCode   == -4
InstallCode == -5

\* a build.sh that unsets the active products after it has made sure of
\* ups/pkgbuild
MutEupspkgScript(setups) ==
    <<Cmd(<<"cd", "buildDir">>),
      Cmd(<<"tar", "xzvf">>),
      Cmd(<<"cd", "PKGDIR">>),
      Cmd(<<"ensure", "ups/pkgbuild">>),
      Cmd(<<"unsetup", "active">>)>>
    \o [k \in 1..Len(setups) |-> Cmd(setups[k])]
    \o <<Guarded(<<"pkgbuild", "fetch">>, FetchCode),
         Guarded(<<"pkgbuild", "prep">>, PrepCode),
         Cmd(<<"setup", "--type=build", "-k", "-r", ".">>),
         Guarded(<<"pkgbuild", "config">>, ConfigCode),
         Guarded(<<"pkgbuild", "build">>, BuildCode),
         Guarded(<<"pkgbuild", "install">>, InstallCode)>>

\* eupspkg.py:577-625, the text written to build.sh ("set -xe" is the
\* errexit flag of the run, see EupspkgErrexit)
EupspkgScript(setups) ==
    <<Cmd(<<"cd", "buildDir">>),
      Cmd(<<"unsetup", "active">>),
      Cmd(<<"tar", "xzvf">>),
      Cmd(<<"cd", "PKGDIR">>),
      Cmd(<<"ensure", "ups/pkgbuild">>)>>
    \o [k \in 1..Len(setups) |-> Cmd(setups[k])]
    \o <<Guarded(<<"pkgbuild", "fetch">>, FetchCode),
         Guarded(<<"pkgbuild", "prep">>, PrepCode),
         Cmd(<<"setup", "--type=build", "-k", "-r", ".">>),
         Guarded(<<"pkgbuild", "config">>, ConfigCode),
         Guarded(<<"pkgbuild", "build">>, BuildCode),
         Guarded(<<"pkgbuild", "install">>, InstallCode)>>

\* build.sh without "set -e"
MutEupspkgErrexit == FALSE

\* eupspkg.py:583  set -xe
EupspkgErrexit == TRUE

\* A build file is a sequence of lines, a line a sequence of words.
IsShebang(line) ==       \* re.search("^#!/bin/(ba|k)?sh", line)
    line # <<>> /\ line[1] \in {"#!/bin/sh", "#!/bin/bash", "#!/bin/ksh"}
IsSetupLine(line) ==     \* r"^\s*setup\s"
    Len(line) >= 2 /\ line[1] = "setup"
IsBlankOrComment(line) ==    \* r"^\s*(\#.*)?$"
    line = <<>> \/ line[1] \in {"#", "#!/bin/sh", "#!/bin/bash", "#!/bin/ksh", "#!/usr/bin/env"}

\* a reading of the build file that leaves the setup lines as they are
MutRewriteSetup(line) == line

\* builder.py:368
RewriteSetup(line) ==
    IF IsSetupLine(line)
    THEN <<"setup", "--keep", "--type=build">> \o Tail(line)
    ELSE line

\* builder.py:362-370, the command lines taken from the build file
RECURSIVE BuildFileLines(_)
BuildFileLines(fd) ==
    IF fd = <<>> THEN <<>>
    ELSE LET line == Head(fd)
             rest == BuildFileLines(Tail(fd))
         IN  IF IsShebang(line) THEN rest
             ELSE IF ~IsBlankOrComment(RewriteSetup(line))
                  THEN <<RewriteSetup(line)>> \o rest
                  ELSE rest

BuildFileTexts ==
    { <<>>,
      << <<"#!/bin/sh">>, <<"setup", "x">>, <<"make">> >>,
      << <<"make">>, <<"make", "install">> >>,
      << <<"#", "nothing", "to", "do">> >> }

\* builder.py:341-375, the list cmd
BuilderScript(setups, verbose, nobuild, fd) ==
    LET lines == IF nobuild
                 THEN << <<"setup", "--just", "--type=build", "-r", ".">> >>
                 ELSE BuildFileLines(fd)
        body == IF lines = <<>> THEN << <<":">> >> ELSE lines
        sets == IF setups = NoSetups THEN <<>> ELSE setups
    IN  <<AndCmd(<<"cd", "buildDir">>)>>
        \o [k \in 1..Len(sets) |-> AndCmd(sets[k])]
        \o (IF verbose > 2 THEN <<AndCmd(<<"set", "-x">>)>> ELSE <<>>)
        \o (IF verbose > 3 THEN <<AndCmd(<<"set", "-v">>)>> ELSE <<>>)
        \o [k \in 1..Len(body) |-> Cmd(body[k])]

\* the builder's composite command is run by a plain "sh -c (...)"
BuilderErrexit == FALSE

\* the first command after the and-list that command i of script is part of
RECURSIVE AfterAndList(_, _)
AfterAndList(script, i) ==
    IF i > Len(script) THEN i
    ELSE IF script[i].and THEN AfterAndList(script, i + 1)
    ELSE i + 1

\* One command of a script has ended with status st: what the shell does
\* next.  next = 0 means that the shell exits, with the status exit.
ShellStep(script, errexit, i, st) ==
    LET c == script[i]
        continue(j) == IF j > Len(script)
                       THEN [next |-> 0, exit |-> st]
                       ELSE [next |-> j, exit |-> 0]
    IN  IF st = 0 THEN continue(i + 1)
        ELSE IF c.guard # 0 THEN [next |-> 0, exit |-> ExitStatus(c.guard)]
        ELSE IF c.and THEN continue(AfterAndList(script, i))
        ELSE IF errexit THEN [next |-> 0, exit |-> st]
        ELSE continue(i + 1)

----------------------------------------------------------------------------
(* installPackage *)

Verbosities == {-1, 0, 1, 3}
Statuses == {0, 1, 2}       \* exit statuses of one command of a script

\* what is in buildDir: "absent" (no such directory), "empty", "stale" (files
\* of an earlier build), "script" (only the generated script and its log);
\* buildDirArg is the argument buildDir of the call, fd the text of the
\* build file the builder has read
NoInst ==
    [mech |-> "none", pc |-> "idle", verbose |-> 0, nobuild |-> FALSE,
     setups |-> <<>>, upsDir |-> FALSE, buildDir |-> "empty",
     buildDirArg |-> NoneVal, fd |-> <<>>,
     script |-> <<>>, next |-> 0, started |-> FALSE, exit |-> 0,
     exc |-> "", tailShown |-> FALSE, reported |-> 0,
     successMsg |-> FALSE, logCopied |-> FALSE, logfile |-> FALSE]

\* a handler of OSError that shows the log and does not raise
MutBuildError(r) ==
    [r EXCEPT !.pc = "done",
              !.tailShown = (r.verbose >= 0 /\ r.logfile),
              !.successMsg = (r.verbose > 0)]

\* eupspkg.py:659-666 and builder.py:412-419: what the handler of OSError
\* does when the script has exited with a non-zero status
BuildError(r) ==
    [r EXCEPT !.pc = "done",
              !.tailShown = (r.verbose >= 0 /\ r.logfile),
              !.exc = "RuntimeError",
              !.reported = r.exit]

\* eupspkg.py:651-657 and 668-669: after eupsServer.system returned
EupspkgSucceeded(r, scriptRan) ==
    IF r.upsDir /\ ~(scriptRan \/ r.logfile)
    THEN \* shutil.copy2 of a log file that was never written
         [r EXCEPT !.pc = "done", !.exc = "IOError"]
    ELSE [r EXCEPT !.pc = "done", !.logCopied = r.upsDir,
                   !.successMsg = (r.verbose > 0)]

\* eupspkg.py:551-649, up to the start of build.sh
EupspkgInstallStart(verbose, nobuild, setups, buildDirArg, upsDir) ==
    LET base == [NoInst EXCEPT !.mech = "eupspkg", !.pc = "done",
                    !.verbose = verbose, !.nobuild = nobuild,
                    !.setups = setups, !.upsDir = upsDir,
                    !.buildDirArg = buildDirArg,
                    !.buildDir = inst.buildDir]
    IN  IF buildDirArg = NoneVal
        THEN \* line 557: os.path.join(None, "build.log")
             [base EXCEPT !.exc = "AttributeError"]
        ELSE IF inst.buildDir = "absent"
        THEN \* line 568: shutil.rmtree of a directory that is not there
             [base EXCEPT !.exc = "OSError"]
        ELSE IF setups = NoSetups
        THEN \* line 628: "\n".join(None), after build.sh was opened
             [base EXCEPT !.buildDir = "script", !.exc = "TypeError"]
        ELSE LET w == [base EXCEPT !.buildDir = "script"]
             IN  IF nobuild
                 THEN [w EXCEPT !.successMsg = (verbose > 0)]
                 ELSE IF noaction
                 THEN EupspkgSucceeded(w, FALSE)
                 ELSE [w EXCEPT !.pc = "running", !.started = TRUE,
                          !.script = EupspkgScript(setups), !.next = 1,
                          !.logfile = TRUE]

\* eupspkg.py:649-669, once build.sh has exited
EupspkgInstallFinish(r) ==
    LET u == [r EXCEPT !.buildDir = "stale"]
    IN  IF System(r.exit, FALSE) = "OSError"
        THEN BuildError(u)
        ELSE EupspkgSucceeded(u, TRUE)

\* builder.py:318-411, up to the start of the composite command
BuilderInstallStart(verbose, nobuild, setups, fd, tfileOk) ==
    LET base == [NoInst EXCEPT !.mech = "builder", !.pc = "done",
                    !.verbose = verbose, !.nobuild = nobuild,
                    !.setups = setups, !.buildDir = inst.buildDir]
    IN  IF ~nobuild /\ ~tfileOk
        THEN \* lines 357-360
             [base EXCEPT !.exc = "RuntimeError"]
        ELSE IF inst.buildDir = "absent"
        THEN \* lines 390-396: open fails, then os.unlink of a missing file
             [base EXCEPT !.exc = "OSError"]
        ELSE LET w == [base EXCEPT
                          !.buildDir = IF inst.buildDir = "empty" THEN "script"
                                       ELSE inst.buildDir,
                          !.script = BuilderScript(setups, verbose, nobuild, fd),
                          !.fd = IF nobuild THEN <<>> ELSE fd,
                          !.logfile = TRUE]
             IN  IF nobuild THEN w
                 ELSE IF noaction
                 THEN [w EXCEPT !.successMsg = (verbose > 0)]
                 ELSE [w EXCEPT !.pc = "running", !.started = TRUE, !.next = 1]

\* builder.py:409-422, once the composite command has exited
BuilderInstallFinish(r) ==
    LET u == [r EXCEPT !.buildDir = "stale"]
    IN  IF System(r.exit, FALSE) = "OSError"
        THEN BuildError(u)
        ELSE [u EXCEPT !.pc = "done", !.successMsg = (r.verbose > 0)]

EupspkgInstallPackage ==
    /\ inst.pc \in {"idle", "done"}
    /\ ninst < MaxInstalls
    /\ \E buildDirArg \in {<<"b">>, NoneVal} :
          IF buildDirArg = NoneVal
          THEN \* line 557 fails before another argument is looked at
               inst' = EupspkgInstallStart(0, FALSE, <<>>, buildDirArg, FALSE)
          ELSE \* whether the product has a ups directory is looked at when
               \* the script has ended (line 654): a call that runs the
               \* script meets it in InstallReturn
               \E verbose \in Verbosities, nobuild \in BOOLEAN,
                  setups \in SetupLists \cup {NoSetups} :
                  \E upsDir \in IF noaction /\ ~nobuild THEN BOOLEAN
                                ELSE {FALSE} :
                      inst' = EupspkgInstallStart(verbose, nobuild, setups,
                                                  buildDirArg, upsDir)
    /\ ran' = <<>>
    /\ ninst' = ninst + 1
    /\ UNCHANGED <<createVars, cbVars, xp>>

BuilderInstallPackage ==
    /\ inst.pc \in {"idle", "done"}
    /\ ninst < MaxInstalls
    /\ \E verbose \in Verbosities, nobuild \in BOOLEAN,
          setups \in SetupLists \cup {NoSetups} :
          \* the build file is fetched and read only without nobuild
          \E tfile \in IF nobuild THEN {[ok |-> TRUE, fd |-> <<>>]}
                       ELSE {[ok |-> TRUE, fd |-> t] : t \in BuildFileTexts}
                            \cup {[ok |-> FALSE, fd |-> <<>>]} :
              inst' = BuilderInstallStart(verbose, nobuild, setups,
                                          tfile.fd, tfile.ok)
    /\ ran' = <<>>
    /\ ninst' = ninst + 1
    /\ UNCHANGED <<createVars, cbVars, xp>>

Errexit(mech) == IF mech = "eupspkg" THEN EupspkgErrexit ELSE BuilderErrexit

\* the shell runs the next command of the script
ScriptStep ==
    /\ inst.pc = "running"
    /\ \E st \in Statuses :
          LET r == ShellStep(inst.script, Errexit(inst.mech), inst.next, st)
          IN  /\ ran' = Append(ran, [name |-> inst.script[inst.next].name,
                                     status |-> st])
              /\ inst' = IF r.next = 0
                         THEN [inst EXCEPT !.pc = "exited", !.exit = r.exit]
                         ELSE [inst EXCEPT !.next = r.next]
    /\ UNCHANGED <<ninst, createVars, cbVars, xp>>

\* eupsServer.system returns or raises, installPackage ends
InstallReturn ==
    /\ inst.pc = "exited"
    /\ IF inst.mech = "eupspkg"
       THEN \E upsDir \in BOOLEAN :
                inst' = EupspkgInstallFinish([inst EXCEPT !.upsDir = upsDir])
       ELSE inst' = BuilderInstallFinish(inst)
    /\ UNCHANGED <<ran, ninst, createVars, cbVars, xp>>

----------------------------------------------------------------------------
(* BuildfilePatchCallbacks *)

\* A line of text is a sequence of pieces of text (strings).
\*
\* The callbacks that get registered.  A callback is a function of a line:
\*   "svn"  the default callback, re.sub(r"/tags/svn", "/trunk -r ", line)
\*   "A"    appends the piece "A" to the line
\*   "B"    appends the piece "B" to the line
\*   "R"    raises RuntimeError
\*   "E"    raises an exception that is not a RuntimeError
Callbacks == {"svn", "A", "B", "R", "E"}

\* c(line): the exception the callback raises, or else the line it returns
CallCallback(c, line) ==
    CASE c = "svn" ->
            [exc |-> "",
             line |-> [k \in 1..Len(line) |->
                          IF line[k] = "/tags/svn" THEN "/trunk -r " ELSE line[k]]]
      [] c = "R" -> [exc |-> "RuntimeError", line |-> line]
      [] c = "E" -> [exc |-> "ValueError", line |-> line]
      [] OTHER -> [exc |-> "", line |-> Append(line, c)]

\* for c in cs: line = c(line)
RECURSIVE CallEach(_, _)
CallEach(cs, line) ==
    IF cs = <<>> THEN [exc |-> "", line |-> line]
    ELSE LET r == CallCallback(Head(cs), line)
         IN  IF r.exc # "" THEN r ELSE CallEach(Tail(cs), r.line)

\* apply with the user callbacks first
MutApplyCallbacks(cbs, ucbs, line) == CallEach(ucbs \o cbs, line)

\* builder.py:502-508  apply
ApplyCallbacks(cbs, ucbs, line) == CallEach(cbs \o ucbs, line)

\* builder.py:486-500  add: the two lists after add(callback, system)
AddCallback(cbs, ucbs, callback, system) ==
    IF system
    THEN [callbacks |-> cbs \o <<callback>>, user_callbacks |-> ucbs]
    ELSE [callbacks |-> cbs, user_callbacks |-> ucbs \o <<callback>>]

\* a clear that empties the system callbacks whenever it empties the user ones
MutClearCallbacks(cbs, ucbs, user, system) ==
    [callbacks |-> IF user \/ system THEN <<>> ELSE cbs,
     user_callbacks |-> IF user THEN <<>> ELSE ucbs]

\* builder.py:510-519  clear: the two lists after clear(user, system)
ClearCallbacks(cbs, ucbs, user, system) ==
    [callbacks |-> IF system THEN <<>> ELSE cbs,
     user_callbacks |-> IF user THEN <<>> ELSE ucbs]

\* builder.py:521-528: the registry once the module is loaded
StartupCallbacks == AddCallback(<<>>, <<>>, "svn", TRUE)

NotApplied == [done |-> FALSE, line |-> <<>>, exc |-> "", result |-> <<>>]

\* the lines apply is called with
AppliedLines == {<<"make">>, <<"svn", " ", "co", " ", "/tags/svn", "2_1">>}

Add ==
    /\ \E callback \in Callbacks \ {"E"}, system \in BOOLEAN :
          /\ Len(IF system THEN callbacks ELSE user_callbacks) < MaxCallbacks
          /\ LET r == AddCallback(callbacks, user_callbacks, callback, system)
             IN  /\ callbacks' = r.callbacks
                 /\ user_callbacks' = r.user_callbacks
          /\ regLog' = Append(regLog, [callback |-> callback, system |-> system])
    /\ applied' = NotApplied
    /\ UNCHANGED <<createVars, instVars, xp>>

Clear ==
    /\ \E user \in BOOLEAN, system \in BOOLEAN :
          /\ LET r == ClearCallbacks(callbacks, user_callbacks, user, system)
             IN  /\ callbacks' = r.callbacks
                 /\ user_callbacks' = r.user_callbacks
          /\ regLog' = SelectSeq(regLog,
                          LAMBDA e : IF e.system THEN ~system ELSE ~user)
    /\ applied' = NotApplied
    /\ UNCHANGED <<createVars, instVars, xp>>

Apply ==
    /\ \E line \in AppliedLines :
          LET r == ApplyCallbacks(callbacks, user_callbacks, line)
          IN  applied' = [done |-> TRUE, line |-> line, exc |-> r.exc,
                          result |-> r.line]
    /\ UNCHANGED <<callbacks, user_callbacks, regLog>>
    /\ UNCHANGED <<createVars, instVars, xp>>

----------------------------------------------------------------------------
(* expandBuildFile *)

Lowers == <<"a", "b", "c", "d", "e", "f", "g", "h", "i", "j", "k", "l", "m",
            "n", "o", "p", "q", "r", "s", "t", "u", "v", "w", "x", "y", "z">>
Uppers == <<"A", "B", "C", "D", "E", "F", "G", "H", "I", "J", "K", "L", "M",
            "N", "O", "P", "Q", "R", "S", "T", "U", "V", "W", "X", "Y", "Z">>

IsLower(c) == \E i \in 1..Len(Lowers) : Lowers[i] = c
IsUpper(c) == \E i \in 1..Len(Uppers) : Uppers[i] = c
IsLetter(c) == IsLower(c) \/ IsUpper(c)
LowerChar(c) ==
    IF IsUpper(c) THEN Lowers[CHOOSE i \in 1..Len(Uppers) : Uppers[i] = c] ELSE c
UpperChar(c) ==
    IF IsLower(c) THEN Uppers[CHOOSE i \in 1..Len(Lowers) : Lowers[i] = c] ELSE c

\* str.lower(), str.upper(), str.title()
Lower(v) == [k \in 1..Len(v) |-> LowerChar(v[k])]
Upper(v) == [k \in 1..Len(v) |-> UpperChar(v[k])]
Title(v) ==
    [k \in 1..Len(v) |->
        IF k = 1 \/ ~IsLetter(v[k - 1]) THEN UpperChar(v[k]) ELSE LowerChar(v[k])]

\* str.replace(old, new), old not empty
RECURSIVE Replace(_, _, _)
Replace(v, old, new) ==
    IF v = <<>> THEN <<>>
    ELSE IF StartsWith(v, old)
         THEN new \o Replace(SubSeq(v, Len(old) + 1, Len(v)), old, new)
         ELSE <<Head(v)>> \o Replace(Tail(v), old, new)

\* The names of variables
VERSION     == <<"V", "E", "R", "S", "I", "O", "N">>
REPOVERSION == <<"R", "E", "P", "O">> \o VERSION
PRODUCT     == <<"P", "R", "O", "D", "U", "C", "T">>
CVSROOT     == <<"C", "V", "S", "R", "O", "O", "T">>
SVNROOT     == <<"S", "V", "N", "R", "O", "O", "T">>
FOOBAR      == <<"F", "O", "O", "B", "A", "R">>

\* A template line is a sequence of pieces: a piece of plain text, or a
\* token @$var.op@ with its operation chain.  The chain is a sequence of
\* operations and of the "." between them, as written in the template.
Text(t) == [kind |-> "text", text |-> t, dollar |-> FALSE, var |-> <<>>, op |-> <<>>]
Tok(dollar, var, op) ==
    [kind |-> "tok", text |-> <<>>, dollar |-> dollar, var |-> var, op |-> op]

\* the operations written in the templates, with their arguments
ReplaceOps == {"replace('a','b')"}
SubOps == {"sub('B','x')", "sub('(','x')"}
OldOf(o) == IF o = "replace('a','b')" THEN <<"a">> ELSE <<"B">>
NewOf(o) == IF o = "replace('a','b')" THEN <<"b">> ELSE <<"x">>
\* re.sub raises re.error for a pattern that does not compile
BadPattern(o) == o = "sub('(','x')"

SupportedOps == ReplaceOps \cup SubOps \cup {"lower()", "upper()", "title()"}

\* builder.py:613-643, one pass through the body of "while op:"
OpStep(op, value) ==
    LET after ==
            IF Head(op) \in ReplaceOps
            THEN [op |-> Tail(op), value |-> Replace(value, OldOf(Head(op)), NewOf(Head(op))),
                  warned |-> FALSE, exc |-> ""]
            ELSE IF Head(op) \in SubOps
            THEN IF BadPattern(Head(op))
                 THEN [op |-> Tail(op), value |-> value, warned |-> FALSE,
                       exc |-> "re.error"]
                 ELSE [op |-> Tail(op),
                       value |-> Replace(value, OldOf(Head(op)), NewOf(Head(op))),
                       warned |-> FALSE, exc |-> ""]
            ELSE IF op = <<"lower()">>
            THEN [op |-> <<>>, value |-> Lower(value), warned |-> FALSE, exc |-> ""]
            ELSE IF op = <<"title()">>
            THEN [op |-> <<>>, value |-> Title(value), warned |-> FALSE, exc |-> ""]
            ELSE IF op = <<"upper()">>
            THEN [op |-> <<>>, value |-> Upper(value), warned |-> FALSE, exc |-> ""]
            ELSE \* "Unexpected modifier ...; ignoring"
                 [op |-> op, value |-> value, warned |-> TRUE, exc |-> ""]
    IN  IF after.op # <<>> /\ Head(after.op) = "."
        THEN [after EXCEPT !.op = Tail(after.op)]
        ELSE after

\* builder.py:542-555 and 559-585: bound is the value in builderVars, env
\* the environment variable, meta what CVS/Root or "svn info" gives; NoneVal
\* for one that is not there
\* a guess in which CVS/Root or "svn info" overrides a bound value
MutGuessRoot(bound, env, meta) ==
    IF ~Truthy(bound) /\ env # NoneVal THEN env
    ELSE IF meta # NoneVal THEN meta
    ELSE bound

\* a guess that prefers the environment variable to a bound value
MutGuessRootEnv(bound, env, meta) ==
    IF env # NoneVal THEN env
    ELSE IF Truthy(bound) THEN bound
    ELSE IF meta # NoneVal THEN meta
    ELSE bound

\* builder.py:542-555 and 559-585, the guess itself
GuessRoot(bound, env, meta) ==
    IF Truthy(bound) THEN bound
    ELSE IF env # NoneVal THEN env
    ELSE IF meta # NoneVal THEN meta
    ELSE bound

\* builder.py:589-595
BuilderVars(config, roots, productName, versionName, repoVersionName) ==
    [n \in DOMAIN config \cup {CVSROOT, SVNROOT, PRODUCT, VERSION, REPOVERSION} |->
        CASE n = CVSROOT ->
                GuessRoot(IF CVSROOT \in DOMAIN config THEN config[CVSROOT] ELSE NoneVal,
                          roots.env, roots.meta)
          [] n = SVNROOT ->
                GuessRoot(IF SVNROOT \in DOMAIN config THEN config[SVNROOT] ELSE NoneVal,
                          roots.env, roots.meta)
          [] n = PRODUCT -> productName
          [] n = VERSION -> versionName
          [] n = REPOVERSION ->
                IF repoVersionName = NoneVal THEN versionName ELSE repoVersionName
          [] OTHER -> config[n]]

\* builder.py:645-646
Wrap(dollar, var, value) ==
    IF dollar THEN <<"${">> \o var \o <<":-">> \o value \o <<"}">> ELSE value

\* line.rstrip(), on pieces
RECURSIVE RStripLine(_)
RStripLine(line) ==
    IF line # <<>> /\ line[Len(line)].kind = "text"
       /\ RStrip(line[Len(line)].text) # line[Len(line)].text
    THEN IF RStrip(line[Len(line)].text) = <<>>
         THEN RStripLine(SubSeq(line, 1, Len(line) - 1))
         ELSE SubSeq(line, 1, Len(line) - 1)
              \o <<Text(RStrip(line[Len(line)].text))>>
    ELSE line

\* a handler of RuntimeError that goes on to the next line without printing
MutPatchedLine(cbs, ucbs, line) ==
    LET r == ApplyCallbacks(cbs, ucbs, line)
    IN  IF r.exc = "" THEN [exc |-> "", warned |-> FALSE, lines |-> <<r.line>>]
        ELSE IF r.exc = "RuntimeError"
        THEN [exc |-> "", warned |-> TRUE, lines |-> <<>>]
        ELSE [exc |-> r.exc, warned |-> FALSE, lines |-> <<>>]

\* builder.py:688-693: the line that is printed after the substitutions gave
\* line, or the exception that leaves expandBuildFile
PatchedLine(cbs, ucbs, line) ==
    LET r == ApplyCallbacks(cbs, ucbs, line)
    IN  IF r.exc = "" THEN [exc |-> "", warned |-> FALSE, lines |-> <<r.line>>]
        ELSE IF r.exc = "RuntimeError"
        THEN [exc |-> "", warned |-> TRUE, lines |-> <<line>>]
        ELSE [exc |-> r.exc, warned |-> FALSE, lines |-> <<>>]

\* ---- builder.py:659-674, the rewriting of checkout and scons lines ----
\* The regular expressions are matched on a line cut into lexemes: a piece
\* of text holds one lexeme (a run of blanks, a "/", a word), a token
\* @VAR@ is a piece of its own.

\* the pieces of a line, one lexeme of text to a piece
RECURSIVE Flat(_)
Flat(line) ==
    IF line = <<>> THEN <<>>
    ELSE LET p == Head(line)
         IN  (IF p.kind = "text"
              THEN [k \in 1..Len(p.text) |-> Text(<<p.text[k]>>)]
              ELSE <<p>>)
             \o Flat(Tail(line))

IsWs(p) == p.kind = "text" /\ IsSpace(p.text[1])        \* \s
IsWord(p, w) == p.kind = "text" /\ p.text = <<w>>
IsTok(p, var) == p = Tok(FALSE, var, <<>>)              \* the text "@VAR@"

\* svn\S*:|http\S*:|@SVNROOT@|@CVSROOT@
IsRoot(p) ==
    \/ IsTok(p, SVNROOT)
    \/ IsTok(p, CVSROOT)
    \/ p.kind = "text" /\ p.text[1] \in {"svn:", "svn+ssh:", "http:", "https:"}

\* re.search(r"^\s*(svn|cvs)\s+(co|checkout)", line)
IsCheckoutLine(L) ==
    \E i, j \in 1..Len(L) :
        /\ \A k \in 1..(i - 1) : IsWs(L[k])
        /\ IsWord(L[i], "svn") \/ IsWord(L[i], "cvs")
        /\ j > i + 1
        /\ \A k \in (i + 1)..(j - 1) : IsWs(L[k])
        /\ IsWord(L[j], "co") \/ IsWord(L[j], "checkout")

\* (root)(\S+/)@VERSION@ with the root at i and @VERSION@ at j
CheckoutMatch(L, i, j) ==
    /\ i + 2 < j
    /\ IsRoot(L[i])
    /\ \A k \in (i + 1)..(j - 1) : ~IsWs(L[k])
    /\ IsWord(L[j - 1], "/")
    /\ IsTok(L[j], VERSION)

\* builder.py:662-664; \S+ is greedy, so of the @VERSION@ of one word the
\* last that follows a "/" is the one rewritten
CheckoutHack(L) ==
    IF IsCheckoutLine(L)
    THEN [j \in 1..Len(L) |->
            IF /\ \E i \in 1..Len(L) : CheckoutMatch(L, i, j)
               /\ ~\E m \in (j + 1)..Len(L) :
                      /\ \A k \in j..m : ~IsWs(L[k])
                      /\ IsWord(L[m - 1], "/")
                      /\ IsTok(L[m], VERSION)
            THEN Tok(FALSE, REPOVERSION, <<>>)
            ELSE L[j]]
    ELSE L

\* builder.py:665  re.sub(r"(hg\s+up\s+)@VERSION@", r"\1@REPOVERSION@", line)
HgHack(L) ==
    [j \in 1..Len(L) |->
        IF /\ IsTok(L[j], VERSION)
           /\ \E a, b \in 1..Len(L) :
                 /\ a + 1 < b /\ b + 1 < j
                 /\ IsWord(L[a], "hg")
                 /\ \A k \in (a + 1)..(b - 1) : IsWs(L[k])
                 /\ IsWord(L[b], "up")
                 /\ \A k \in (b + 1)..(j - 1) : IsWs(L[k])
        THEN Tok(FALSE, REPOVERSION, <<>>)
        ELSE L[j]]

\* re.search(r"^\s*scons\s+.*install", line)
IsSconsInstall(L) ==
    \E i, j \in 1..Len(L) :
        /\ \A k \in 1..(i - 1) : IsWs(L[k])
        /\ IsWord(L[i], "scons")
        /\ i < Len(L) /\ IsWs(L[i + 1])
        /\ j > i + 1
        /\ IsWord(L[j], "install")

\* an argument \s<name>\S+ begins at the blank s
IsArgAt(L, name, s) ==
    /\ s + 2 <= Len(L)
    /\ IsWs(L[s])
    /\ IsWord(L[s + 1], name)
    /\ ~IsWs(L[s + 2])

\* piece k belongs to an argument \sversion=\S+
InVersionArg(L, k) ==
    \E s \in 1..k :
        /\ IsArgAt(L, "version=", s)
        /\ \A m \in (s + 2)..k : ~IsWs(L[m])

\* builder.py:670  re.sub("\sversion=\S+", "", line)
RECURSIVE StripVersion(_, _)
StripVersion(L, k) ==
    IF k > Len(L) THEN <<>>
    ELSE (IF InVersionArg(L, k) THEN <<>> ELSE <<L[k]>>) \o StripVersion(L, k + 1)

\* re.search(r"\sbaseversion=\S+", line)
HasBaseversion(L) == \E s \in 1..Len(L) : IsArgAt(L, "baseversion=", s)

VersionArg == <<Text(<<" ">>), Text(<<"version=">>), Tok(FALSE, VERSION, <<>>)>>
BaseversionArg ==
    <<Text(<<" ">>), Text(<<"baseversion=">>), Tok(FALSE, REPOVERSION, <<>>)>>

\* the scons rewriting without the test of line 672
MutSconsHack(L) ==
    IF IsSconsInstall(L)
    THEN StripVersion(L, 1) \o VersionArg \o BaseversionArg
    ELSE L

\* builder.py:669-674
SconsHack(L) ==
    IF IsSconsInstall(L)
    THEN LET s == StripVersion(L, 1) \o VersionArg
         IN  IF ~HasBaseversion(s) THEN s \o BaseversionArg ELSE s
    ELSE L

\* builder.py:657-674, what is left of a line for the substitutions
Hacks(line) == SconsHack(HgHack(CheckoutHack(Flat(RStripLine(line)))))

NoRoots == [env |-> NoneVal, meta |-> NoneVal]

\* what a createPackage call has to bind CVSROOT and SVNROOT with: the
\* values of the configuration (NoneVal for a name it does not bind) and the
\* options cvsroot and svnroot ("" when not given, builder.py:59-65)
NoGiven ==
    [called |-> FALSE, config |-> [cvs |-> NoneVal, svn |-> NoneVal],
     cvsroot |-> <<>>, svnroot |-> <<>>]

\* eups.hooks.config.distrib["builder"]["variables"] with these values
ConfigVariables(c) ==
    [n \in (IF c.cvs = NoneVal THEN {} ELSE {CVSROOT})
           \cup (IF c.svn = NoneVal THEN {} ELSE {SVNROOT}) |->
        IF n = CVSROOT THEN c.cvs ELSE c.svn]

\* builder.py:248-253: the bindings createPackage hands to expandBuildFile
CommandLineRoots(config, cvsroot, svnroot) ==
    [n \in DOMAIN config
           \cup (IF Truthy(cvsroot) THEN {CVSROOT} ELSE {})
           \cup (IF Truthy(svnroot) THEN {SVNROOT} ELSE {}) |->
        IF n = CVSROOT /\ Truthy(cvsroot) THEN cvsroot
        ELSE IF n = SVNROOT /\ Truthy(svnroot) THEN svnroot
        ELSE config[n]]

\* run counts the calls made with the same arguments, reused tells that the
\* call was given the bindings object of the call before it, first is what
\* the call before it wrote and how it ended
NoExpand ==
    [pc |-> "idle", ifd |-> <<>>, builderVars |-> <<>>, lineNo |-> 0,
     rest |-> <<>>, cur |-> <<>>, dollar |-> FALSE, var |-> <<>>,
     op |-> <<>>, value |-> <<>>, warn |-> 0, diag |-> 0,
     ofd |-> <<>>, hist |-> <<>>, exc |-> "",
     roots |-> NoRoots, run |-> 0, reused |-> FALSE,
     first |-> [ofd |-> <<>>, exc |-> ""],
     given |-> NoGiven]

\* the lines of the templates
TemplateLines ==
    { <<Text(<<"make">>)>>,
      <<Text(<<"v=">>), Tok(FALSE, VERSION, <<>>), Text(<<" ">>)>>,
      <<Tok(FALSE, VERSION, <<"lower()">>)>>,
      <<Tok(FALSE, VERSION, <<"foo()">>)>>,
      <<Tok(FALSE, VERSION, <<"foo()", ".", "upper()">>)>>,
      <<Tok(FALSE, VERSION, <<"replace('a','b')", ".", "upper()">>)>>,
      <<Tok(FALSE, VERSION, <<"sub('(','x')">>)>>,
      <<Tok(TRUE, PRODUCT, <<>>), Text(<<"/tags/svn">>)>>,
      <<Tok(FALSE, CVSROOT, <<"title()">>)>>,
      <<Tok(FALSE, FOOBAR, <<>>)>>,
      <<Tok(FALSE, VERSION, <<"lower()", ".", "replace('a','b')">>)>>,
      \* svn checkout @SVNROOT@/tags/svn2_1/foo @VERSION@
      <<Text(<<"svn", " ", "checkout", " ">>), Tok(FALSE, SVNROOT, <<>>),
        Text(<<"/tags/svn", "2_1", "/", "foo", " ">>), Tok(FALSE, VERSION, <<>>)>>,
      \* svn co @SVNROOT@/foo/tags/@VERSION@
      <<Text(<<"svn", " ", "co", " ">>), Tok(FALSE, SVNROOT, <<>>),
        Text(<<"/", "foo", "/", "tags", "/">>), Tok(FALSE, VERSION, <<>>)>>,
      \* hg up @VERSION@
      <<Text(<<"hg", " ", "up", " ">>), Tok(FALSE, VERSION, <<>>)>>,
      \* scons opt=3 install
      <<Text(<<"scons", " ", "opt=3", " ", "install">>)>>,
      \* scons install version=9 baseversion=7
      <<Text(<<"scons", " ", "install", " ", "version=", "9", " ",
               "baseversion=", "7">>)>>,
      \* scons install version=aB baseversion=a, an expanded line
      <<Text(<<"scons", " ", "install", " ", "version=", "a", "B", " ",
               "baseversion=", "a">>)>> }

\* the lines that the templates of more than one line are made of
CommonLines ==
    { <<Text(<<"make">>)>>,
      <<Text(<<"v=">>), Tok(FALSE, VERSION, <<>>), Text(<<" ">>)>>,
      <<Tok(FALSE, VERSION, <<"sub('(','x')">>)>>,
      <<Tok(TRUE, PRODUCT, <<>>), Text(<<"/tags/svn">>)>> }

\* the templates: every line alone, and files of up to MaxLines common lines
Templates == {<<l>> : l \in TemplateLines} \cup SeqsUpTo(CommonLines, MaxLines)

RootCases ==
    { [env |-> NoneVal, meta |-> NoneVal],
      [env |-> <<"e", "n", "v">>, meta |-> <<"m">>] }

\* the line after lineNo: start on it, or finish
NextLine(x, lineNo) ==
    IF lineNo > Len(x.ifd)
    THEN [x EXCEPT !.pc = "done", !.lineNo = lineNo, !.rest = <<>>, !.cur = <<>>]
    ELSE [x EXCEPT !.pc = "subst", !.lineNo = lineNo,
                   !.rest = Hacks(x.ifd[lineNo]), !.cur = <<>>]

\* the arguments expandBuildFile is called with
ProductName == <<"f", "o">>
VersionName == <<"a", "B">>
RepoVersionName == <<"a">>

\* builder.py:589-595 and 656: expandBuildFile starts on ifd with the
\* bindings config, in the environment roots
StartExpand(ifd, config, reused, roots, run, first) ==
    NextLine([NoExpand EXCEPT
                !.ifd = ifd,
                !.builderVars = BuilderVars(config, roots, ProductName,
                                            VersionName, RepoVersionName),
                !.roots = roots, !.run = run, !.reused = reused,
                !.first = first],
             1)

\* expandBuildFile is called
ExpandBuildFile ==
    /\ xp.pc \in {"idle", "done", "aborted"}
    /\ \E ifd \in Templates, roots \in RootCases :
          xp' = StartExpand(ifd, <<>>, FALSE, roots, 1, NoExpand.first)
    /\ UNCHANGED <<createVars, instVars, cbVars>>

\* the values configurations bind the two names with, the values of the two
\* options, and what the environment and the working directory give
ConfigCases ==
    { [cvs |-> NoneVal, svn |-> NoneVal],
      [cvs |-> <<"c">>, svn |-> <<>>],
      [cvs |-> <<>>, svn |-> <<"s">>] }
RootOptions == {<<>>, <<"o">>}
RootEnvs ==
    { [env |-> NoneVal, meta |-> NoneVal],
      [env |-> NoneVal, meta |-> <<"m">>],
      [env |-> <<"e", "n", "v">>, meta |-> NoneVal],
      [env |-> <<"e", "n", "v">>, meta |-> <<"m">>],
      [env |-> <<>>, meta |-> <<"m">>] }

\* the templates that name CVSROOT or SVNROOT
RootTemplates ==
    { << <<Tok(FALSE, CVSROOT, <<"title()">>)>> >>,
      << <<Tok(FALSE, CVSROOT, <<>>), Text(<<" ">>), Tok(FALSE, SVNROOT, <<>>)>> >>,
      << <<Text(<<"svn", " ", "co", " ">>), Tok(FALSE, SVNROOT, <<>>),
           Text(<<"/", "foo", "/", "tags", "/">>), Tok(FALSE, VERSION, <<>>)>> >> }

\* builder.py:246-256: createPackage calls expandBuildFile with the
\* bindings of the configuration and the options cvsroot, svnroot
ExpandWithRoots ==
    /\ xp.pc \in {"idle", "done", "aborted"}
    /\ \E ifd \in RootTemplates, config \in ConfigCases,
          cvsroot \in RootOptions, svnroot \in RootOptions, roots \in RootEnvs :
          xp' = [StartExpand(ifd,
                             CommandLineRoots(ConfigVariables(config),
                                              cvsroot, svnroot),
                             FALSE, roots, 1, NoExpand.first)
                    EXCEPT !.given = [called |-> TRUE, config |-> config,
                                      cvsroot |-> cvsroot, svnroot |-> svnroot]]
    /\ UNCHANGED <<createVars, instVars, cbVars>>

\* expandBuildFile is called again with the arguments of the call that has
\* just ended, in the same environment: with bindings equal to the ones the
\* first call started with, or with the object the first call has written
\* its guesses to
ExpandAgain ==
    /\ xp.pc \in {"done", "aborted"}
    /\ xp.run = 1
    /\ \E reuse \in BOOLEAN :
          xp' = StartExpand(xp.ifd, IF reuse THEN xp.builderVars ELSE <<>>,
                            reuse, xp.roots, 2,
                            [ofd |-> xp.ofd, exc |-> xp.exc])
    /\ UNCHANGED <<createVars, instVars, cbVars>>

\* builder.py:686 and 597-611: re.sub comes to the next piece of the line
Substitute ==
    /\ xp.pc = "subst"
    /\ xp.rest # <<>>
    /\ LET piece == Head(xp.rest)
           var == Upper(piece.var)
           known == var \in DOMAIN xp.builderVars
           set == known /\ Truthy(xp.builderVars[var])
           value == IF set THEN xp.builderVars[var] ELSE var
           diag == IF known /\ ~set THEN xp.diag + 1 ELSE xp.diag
       IN  xp' = IF piece.kind = "text"
                 THEN [xp EXCEPT !.cur = @ \o piece.text, !.rest = Tail(@)]
                 ELSE IF ~known
                 THEN [xp EXCEPT !.cur = @ \o <<"X", "X", "X">>, !.rest = Tail(@)]
                 ELSE IF piece.op = <<>>
                 THEN [xp EXCEPT !.cur = @ \o Wrap(piece.dollar, var, value),
                                 !.rest = Tail(@), !.diag = diag]
                 ELSE [xp EXCEPT !.pc = "op", !.dollar = piece.dollar, !.var = var,
                                 !.op = piece.op, !.value = value,
                                 !.warn = 0, !.diag = diag]
    /\ UNCHANGED <<createVars, instVars, cbVars>>

\* builder.py:613-648: once through the body of "while op:"
OpIteration ==
    /\ xp.pc = "op"
    /\ LET r == OpStep(xp.op, xp.value)
       IN  /\ r.warned => xp.warn < MaxWarnings
           /\ xp' = IF r.exc # ""
                    THEN [xp EXCEPT !.pc = "aborted", !.exc = r.exc]
                    ELSE IF r.op = <<>>
                    THEN [xp EXCEPT !.pc = "subst", !.op = <<>>, !.value = r.value,
                                    !.cur = @ \o Wrap(xp.dollar, xp.var, r.value),
                                    !.rest = Tail(@)]
                    ELSE [xp EXCEPT !.op = r.op, !.value = r.value,
                                    !.warn = IF r.warned THEN @ + 1 ELSE @]
    /\ UNCHANGED <<createVars, instVars, cbVars>>

\* builder.py:688-693: the callbacks, then print >> ofd, line
WriteLine ==
    /\ xp.pc = "subst"
    /\ xp.rest = <<>>
    /\ LET r == PatchedLine(callbacks, user_callbacks, xp.cur)
       IN  xp' = IF r.exc # ""
                 THEN [xp EXCEPT !.pc = "aborted", !.exc = r.exc]
                 ELSE NextLine([xp EXCEPT
                                  !.ofd = @ \o r.lines,
                                  !.hist = Append(@, [lineNo |-> xp.lineNo,
                                                      subst |-> xp.cur,
                                                      warned |-> r.warned])],
                               xp.lineNo + 1)
    /\ UNCHANGED <<createVars, instVars, cbVars>>

----------------------------------------------------------------------------
(* Initial values of the parts a specification does not use *)

IdleCreate ==
    /\ force = FALSE
    /\ noaction = FALSE
    /\ allowIncomplete = FALSE
    /\ buildFilePath = <<>>
    /\ buildFiles = {}
    /\ buildsDir = FALSE
    /\ builds = [n \in BuildNames |-> Absent]
    /\ productsDir = FALSE
    /\ products = [n \in PkgNames |-> Absent]
    /\ tmpdirs = 0
    /\ ncalls = 0
    /\ call = NoCall
    /\ prev = NoCall
    /\ parsed = NotParsed

IdleInstall ==
    /\ inst = NoInst
    /\ ran = <<>>
    /\ ninst = 0

IdleCallbacks ==
    /\ callbacks = StartupCallbacks.callbacks
    /\ user_callbacks = StartupCallbacks.user_callbacks
    /\ regLog = <<[callback |-> "svn", system |-> TRUE]>>
    /\ applied = NotApplied

IdleExpand == xp = NoExpand

----------------------------------------------------------------------------
(* SpecCreate: createPackage of both mechanisms on one server tree *)

InitCreate ==
    /\ force \in BOOLEAN
    /\ noaction \in BOOLEAN
    /\ allowIncomplete = FALSE
    /\ buildFilePath = <<":">>
    /\ buildFiles \in SUBSET {UpsDir}
    /\ buildsDir = FALSE
    /\ builds = [n \in BuildNames |-> Absent]
    /\ productsDir = FALSE
    /\ products = [n \in PkgNames |-> Absent]
    /\ tmpdirs = 0
    /\ ncalls = 0
    /\ call = NoCall
    /\ prev = NoCall
    /\ parsed = NotParsed
    /\ IdleInstall
    /\ IdleCallbacks
    /\ IdleExpand

NextCreate ==
    \/ BuilderCreatePackage
    \/ EupspkgCreatePackage

SpecCreate == InitCreate /\ [][NextCreate]_vars

\* the latest call repeats the call before it
SameCallAgain ==
    /\ call.mech # "none"
    /\ call.mech = prev.mech
    /\ call.product = prev.product
    /\ call.version = prev.version
    /\ call.letterVersion = prev.letterVersion

\* C1: for both mechanisms, when createPackage succeeded and is called again
\* with overwrite=false and Eups.force unset, the second call returns the same
\* distribution ID, leaves the artifact as it was, and runs neither the
\* template expansion nor the "pkgbuild create" verb.
C1_SecondCreateDoesNothing ==
    (SameCallAgain /\ prev.status = "id" /\ ~call.overwrite /\ ~force)
        => /\ call.status = "id"
           /\ call.result = prev.result
           /\ call.after = call.before
           /\ ~call.expandRan
           /\ ~call.createRan

\* the artifact was (re)written by the latest call
Rewritten ==
    /\ call.outcome = "written"
    /\ call.after = Complete(ncalls)
    /\ call.mech = "builder" => call.expandRan
    /\ call.mech = "eupspkg" => call.createRan /\ call.tarRan

\* C2 as stated: for both mechanisms, in every state of the server tree, a
\* createPackage call with overwrite=true or with Eups.force set always
\* re-runs the expansion (builder) or the create verb and the tarball write
\* (eupspkg) and rewrites the artifact.
C2_ForcedAlwaysRewrites ==
    (call.mech # "none" /\ (call.overwrite \/ force)) => Rewritten

\* C2, amended: a createPackage call with overwrite=true or Eups.force set
\* that is made with Eups.noaction unset and returns a distribution ID has
\* re-run the expansion (builder) or the create verb and the tarball write
\* (eupspkg) and has rewritten the artifact, also when it existed before.
C2_ForcedRewritesUnlessDryRun ==
    (call.mech # "none" /\ (call.overwrite \/ force)
        /\ ~noaction /\ call.status = "id") => Rewritten

\* an artifact that existed was rewritten by a forced call
C2_Witness ==
    /\ call.mech # "none"
    /\ call.overwrite \/ force
    /\ Exists(call.before)
    /\ call.status = "id"
    /\ call.after = Complete(ncalls)
    /\ call.before.stamp < ncalls

\* C3: for each mechanism, parseDistID(getDistIdForPackage(product, version))
\* is the file name under which createPackage(product, version[,
\* letterVersion]) stored the artifact, so packageCreated(product, version)
\* is true after a createPackage that wrote it.
C3_RoundTripNamesTheArtifact ==
    /\ (call.mech = "builder" /\ call.outcome = "written") =>
          /\ BuilderParseDistID(BuilderGetDistIdForPackage(call.product, call.version))
                = call.name
          /\ BuilderPackageCreated(call.product, call.version)
    /\ (call.mech = "eupspkg" /\ call.outcome = "written") =>
          /\ EupspkgParseDistID(EupspkgGetDistIdForPackage(call.product, call.version))
                = call.name
          /\ EupspkgPackageCreated(call.product, call.version)

\* C4: for both mechanisms, when createPackage fails after it opened the
\* artifact for writing, no partial artifact is left at the target path.
C4_NoPartialArtifactAfterFailure ==
    (call.mech # "none" /\ call.opened /\ call.status = "raise")
        => call.after.st # "partial"

C29_NoactionRunsNothing ==
    noaction =>
        /\ call.mech # "none" =>
              /\ ~call.createRan /\ ~call.tarRan /\ ~call.expandRan
              /\ call.after = call.before
        /\ inst.mech # "none" => ~inst.started /\ ran = <<>>

----------------------------------------------------------------------------
(* SpecLookup: the builder's createPackage under every build file path *)

InitLookup ==
    /\ force = FALSE
    /\ noaction = FALSE
    /\ allowIncomplete \in BOOLEAN
    /\ buildFilePath \in BuildFilePaths
    /\ buildFiles \in BuildFileLayouts
    /\ buildsDir = FALSE
    /\ builds = [n \in BuildNames |-> Absent]
    /\ productsDir = FALSE
    /\ products = [n \in PkgNames |-> Absent]
    /\ tmpdirs = 0
    /\ ncalls = 0
    /\ call = NoCall
    /\ prev = NoCall
    /\ parsed = NotParsed
    /\ IdleInstall
    /\ IdleCallbacks
    /\ IdleExpand

NextLookup == BuilderCreatePackage

SpecLookup == InitLookup /\ [][NextLookup]_vars

\* C14: when the builder's createPackage can locate neither the build file
\* of the product nor a template.build, it fails with an error if
\* allowIncomplete is unset and returns None without raising if
\* allowIncomplete is set; in both cases it creates or modifies no artifact.
C14_MissingBuildFile ==
    (call.mech = "builder" /\ call.buildFile = NoneVal) =>
        /\ allowIncomplete => call.status = "None" /\ call.result = NoneVal
        /\ ~allowIncomplete => call.status = "raise"
        /\ ~call.opened
        /\ builds[call.name] = call.before

\* C20: the builder's createPackage uses the ups/<product>.build of the
\* installed product whenever that file exists, for every value of
\* buildFilePath, and turns to the template.build only when that file is
\* not found.
C20_OwnBuildFileFirst ==
    (call.mech = "builder" /\ UpsDir \in buildFiles) => call.buildFile = UpsDir

\* an element of the path that carries the trailing recursive flag
Marked(el) == el # <<>> /\ el[Len(el)] = "%"

\* the directories, among those that hold the file, in which the element el
\* of the path is said to find it: the directory itself for an unmarked
\* element, the directory and everything under it for a marked one
HeldUnder(el, files) ==
    IF Marked(el)
    THEN LET bd == SubSeq(el, 1, Len(el) - 1)
         IN  {d \in files : d = bd \/ StartsWith(d, bd \o <<"/">>)}
    ELSE {d \in files : d = (IF el = <<>> THEN UpsDir ELSE el)}

\* the elements of a path that come before the first one that finds the file
RECURSIVE FirstHolder(_, _)
FirstHolder(els, files) ==
    IF els = <<>> THEN {}
    ELSE IF HeldUnder(Head(els), files) # {} THEN HeldUnder(Head(els), files)
    ELSE FirstHolder(Tail(els), files)

\* C21: find_file_on_path goes through the elements of the colon-delimited
\* path in order and returns the match of the first element that has one:
\* an element with the trailing recursive flag is searched in all its
\* subdirectories, an element without it only in the directory itself; it
\* returns None only when no element has a match.
C21_PathSearchedInOrder ==
    (call.mech = "builder" /\ buildFilePath # <<>>) =>
        LET hit == FirstHolder(Split(buildFilePath), buildFiles)
        IN  IF hit = {} THEN call.buildFile = NoneVal
            ELSE call.buildFile \in hit

----------------------------------------------------------------------------
(* SpecParse: parseDistID of both mechanisms *)

InitParse ==
    /\ IdleCreate
    /\ IdleInstall
    /\ IdleCallbacks
    /\ IdleExpand

NextParse == ParseDistID

SpecParse == InitParse /\ [][NextParse]_vars

\* the text without the blanks at its two ends
Trimmed(id) ==
    LET ns == {i \in 1..Len(id) : ~IsSpace(id[i])}
    IN  IF ns = {} THEN <<>>
        ELSE SubSeq(id, CHOOSE i \in ns : \A j \in ns : i <= j,
                        CHOOSE i \in ns : \A j \in ns : i >= j)

----------------------------------------------------------------------------
(* SpecInstall: installPackage of both mechanisms *)

InitInstall ==
    /\ force = FALSE
    /\ noaction \in BOOLEAN
    /\ allowIncomplete = FALSE
    /\ buildFilePath = <<>>
    /\ buildFiles = {}
    /\ buildsDir = FALSE
    /\ builds = [n \in BuildNames |-> Absent]
    /\ productsDir = FALSE
    /\ products = [n \in PkgNames |-> Absent]
    /\ tmpdirs = 0
    /\ ncalls = 0
    /\ call = NoCall
    /\ prev = NoCall
    /\ parsed = NotParsed
    /\ \E d \in {"absent", "empty", "stale"} : inst = [NoInst EXCEPT !.buildDir = d]
    /\ ran = <<>>
    /\ ninst = 0
    /\ IdleCallbacks
    /\ IdleExpand

NextInstall ==
    \/ EupspkgInstallPackage
    \/ BuilderInstallPackage
    \/ ScriptStep
    \/ InstallReturn

SpecInstall == InitInstall /\ [][NextInstall]_vars

IsPrefix(a, b) == Len(a) <= Len(b) /\ a = SubSeq(b, 1, Len(a))

Fetch     == <<"pkgbuild", "fetch">>
Prep      == <<"pkgbuild", "prep">>
Config    == <<"pkgbuild", "config">>
Build     == <<"pkgbuild", "build">>
Install   == <<"pkgbuild", "install">>
Unpack    == <<"tar", "xzvf">>
SelfSetup == <<"setup", "--type=build", "-k", "-r", ".">>

\* the steps of build.sh that are no stage of the install
NotAStage ==
    {<<"cd", "buildDir">>, <<"unsetup", "active">>, <<"cd", "PKGDIR">>,
     <<"ensure", "ups/pkgbuild">>}

StagesRan ==
    LET names == [k \in 1..Len(ran) |-> ran[k].name]
    IN  SelectSeq(names, LAMBDA n : n \notin NotAStage)

StageOrder(setups) ==
    <<Unpack>> \o setups \o <<Fetch, Prep, SelfSetup, Config, Build, Install>>

SomeStepFailed == \E k \in 1..Len(ran) : ran[k].status # 0

\* C5: in the script of the eupspkg installPackage the stages run in the
\* order unpack, dependency setups, fetch, prep, self-setup, config, build,
\* install, each at most once; a stage runs only if every step before it
\* succeeded; after a failure nothing more runs and the install fails.
C5_StagesRunInOrderUntilFailure ==
    (inst.mech = "eupspkg" /\ inst.started) =>
        /\ IsPrefix(StagesRan, StageOrder(inst.setups))
        /\ \A k \in 1..Len(ran) - 1 : ran[k].status = 0
        /\ SomeStepFailed => inst.pc \in {"exited", "done"} /\ inst.exit # 0
        /\ (SomeStepFailed /\ inst.pc = "done") => inst.exc = "RuntimeError"

\* the build verb failed after two setups and every stage before it
C5_Witness ==
    /\ inst.mech = "eupspkg"
    /\ inst.pc = "done"
    /\ Len(inst.setups) = 2
    /\ ran # <<>>
    /\ ran[Len(ran)].name = Build
    /\ ran[Len(ran)].status # 0
    /\ inst.exc = "RuntimeError"

Verbs == {Fetch, Prep, Config, Build, Install}

\* the exit code the claim gives for each verb
ClaimedCode(verb) ==
    CASE verb = Fetch -> -1
      [] verb = Prep -> -2
      [] verb = Config -> -3
      [] verb = Build -> -4
      [] verb = Install -> -5

\* C6: when a pkgbuild verb of the eupspkg install script fails, the script
\* ends with that verb's exit code (fetch -1, prep -2, config -3, build -4,
\* install -5, as the shell reports them: modulo 256), and no other verb
\* has this code.
C6_VerbFailureExitsWithItsOwnCode ==
    (/\ inst.mech = "eupspkg"
     /\ inst.pc \in {"exited", "done"}
     /\ ran # <<>>
     /\ ran[Len(ran)].name \in Verbs
     /\ ran[Len(ran)].status # 0)
        => /\ inst.exit = ClaimedCode(ran[Len(ran)].name) % 256
           /\ inst.exit # 0
           /\ \A w \in Verbs :
                 inst.exit = ClaimedCode(w) % 256 => w = ran[Len(ran)].name

\* the build verb failed and the script exited with 252
C6_Witness ==
    /\ inst.mech = "eupspkg"
    /\ inst.pc = "exited"
    /\ ran # <<>>
    /\ ran[Len(ran)].name = Build
    /\ ran[Len(ran)].status # 0
    /\ inst.exit = 252

\* the script of the latest installPackage was run and exited non-zero
ScriptFailed == inst.pc = "done" /\ inst.started /\ inst.exit # 0

\* C7 as stated: in both installers, whenever the executed script exits
\* non-zero, installPackage fails with the build-failure error, the tail of
\* the build log is surfaced, the error carries the exit code, and neither
\* the success message nor the copy of the log happens.
C7_ScriptFailureAlwaysShowsLog ==
    ScriptFailed =>
        /\ inst.exc = "RuntimeError"
        /\ inst.tailShown
        /\ inst.reported = inst.exit
        /\ ~inst.successMsg
        /\ ~inst.logCopied

\* C7, amended: in both installers, whenever the executed script exits
\* non-zero, installPackage fails with the build-failure error, the error
\* carries the exit code, neither the success message nor the copy of the
\* log happens, and the tail of the build log is surfaced exactly when the
\* verbosity is not negative.
C7_ScriptFailureFailsInstall ==
    ScriptFailed =>
        /\ inst.exc = "RuntimeError"
        /\ inst.tailShown = (inst.verbose >= 0)
        /\ inst.reported = inst.exit
        /\ ~inst.successMsg
        /\ ~inst.logCopied

\* the fetch verb failed, the log tail was shown, the install failed with 255
C7_Witness ==
    /\ ScriptFailed
    /\ inst.mech = "eupspkg"
    /\ ran[Len(ran)].name = Fetch
    /\ inst.tailShown
    /\ inst.reported = 255
    /\ inst.upsDir

EnterBuildDir == <<"cd", "buildDir">>
Unsetup == <<"unsetup", "active">>
EnterPkgDir == <<"cd", "PKGDIR">>
EnsurePkgbuild == <<"ensure", "ups/pkgbuild">>

\* the steps of build.sh that ran before its first pkgbuild verb, without
\* the cd to the build directory
RECURSIVE UpToFirstVerb(_)
UpToFirstVerb(names) ==
    IF names = <<>> \/ Head(names) \in Verbs THEN <<>>
    ELSE <<Head(names)>> \o UpToFirstVerb(Tail(names))

PreparationRan ==
    SelectSeq(UpToFirstVerb([k \in 1..Len(ran) |-> ran[k].name]),
              LAMBDA n : n # EnterBuildDir)

\* C19 as stated: in the script of the eupspkg installPackage the steps
\* before the first verb run in the order: unpack the tarball, enter the
\* extracted directory, make sure of ups/pkgbuild, unsetup every active
\* product, then the setups of the caller in the caller's order.
C19_UnsetupAfterUnpack ==
    (inst.mech = "eupspkg" /\ inst.started) =>
        IsPrefix(PreparationRan,
                 <<Unpack, EnterPkgDir, EnsurePkgbuild, Unsetup>> \o inst.setups)

\* C19, amended: the steps before the first verb run in the order: unsetup
\* every active product, unpack the tarball, enter the extracted directory,
\* make sure of ups/pkgbuild, then the setups of the caller in the caller's
\* order.
C19_UnsetupBeforeUnpack ==
    (inst.mech = "eupspkg" /\ inst.started) =>
        IsPrefix(PreparationRan,
                 <<Unsetup, Unpack, EnterPkgDir, EnsurePkgbuild>> \o inst.setups)

\* a script with two different setups ran to its end without a failure
C19_Witness ==
    /\ inst.mech = "eupspkg"
    /\ inst.pc = "done"
    /\ inst.started
    /\ inst.exc = ""
    /\ inst.setups = << <<"setup", "b">>, <<"setup", "a">> >>
    /\ Len(ran) = Len(inst.script)
    /\ PreparationRan
          = <<Unsetup, Unpack, EnterPkgDir, EnsurePkgbuild,
              <<"setup", "b">>, <<"setup", "a">> >>

\* C22: the eupspkg installPackage starts every install from an empty build
\* directory: whether buildDir was absent, empty or held the files of an
\* earlier build, when build.sh starts buildDir exists and holds only the
\* generated script, and after the call, on success and on failure, the
\* script is still in it.
C22_BuildDirRegenerated ==
    (inst.mech = "eupspkg" /\ inst.buildDirArg # NoneVal) =>
        /\ inst.pc = "running" /\ inst.next = 1 => inst.buildDir = "script"
        /\ inst.pc = "done" => inst.buildDir \in {"script", "stale"}

\* C30: the eupspkg installPackage that is called without buildDir (None,
\* the declared default) falls back to the configured option and carries
\* the install out: the call does not fail before the build starts.
C30_DefaultBuildDirFallsBack ==
    (inst.mech = "eupspkg" /\ inst.pc = "done" /\ inst.buildDirArg = NoneVal) =>
        inst.exc = ""

\* the words a comment line or a shebang line begins with
CommentWords == {"#", "#!/bin/sh", "#!/bin/bash", "#!/bin/ksh", "#!/usr/bin/env"}

\* the command lines of a build file: not empty, not a comment, not a shebang
CommandLines(fd) == SelectSeq(fd, LAMBDA l : l # <<>> /\ l[1] \notin CommentWords)

\* a command line as the claim says it is passed on
Forced(line) ==
    IF Len(line) >= 2 /\ line[1] = "setup"
    THEN <<"setup", "--keep", "--type=build">> \o SubSeq(line, 2, Len(line))
    ELSE line

\* the commands of the builder's script that come from the build file
BuildLines(script) ==
    LET body == SelectSeq(script, LAMBDA c : ~c.and)
    IN  [k \in 1..Len(body) |-> body[k].name]

Preamble(r) ==
    <<EnterBuildDir>> \o (IF r.setups = NoSetups THEN <<>> ELSE r.setups)

\* C24: in the composite command of the builder's installPackage "cd
\* buildDir" comes first, then the caller's setup commands in the caller's
\* order, then the tracing flags, then the build-file lines; and no
\* build-file line runs unless the cd and every setup command succeeded.
C24_NoBuildLineAfterFailedSetup ==
    (inst.mech = "builder" /\ inst.script # <<>>) =>
        LET pre == Preamble(inst)
            lines == BuildLines(inst.script)
        IN  /\ \A k \in 1..Len(pre) : inst.script[k].name = pre[k]
            /\ \A k \in 1..Len(lines) :
                  inst.script[Len(inst.script) - Len(lines) + k].name = lines[k]
            /\ \A k \in 1..Len(ran) :
                  (k <= Len(pre) /\ ran[k].status # 0) =>
                      \A m \in (k + 1)..Len(ran) :
                          \A i \in 1..Len(lines) : ran[m].name # lines[i]

\* C28: the builder's installPackage reports failure whenever a build-file
\* command of the script it ran has exited non-zero, whether it was the
\* last command or one in the middle.
C28_AnyFailingLineFailsInstall ==
    (/\ inst.mech = "builder" /\ inst.pc = "done" /\ inst.started
     /\ \E k \in 1..Len(ran) :
           /\ ran[k].status # 0
           /\ \E i \in 1..Len(BuildLines(inst.script)) :
                 ran[k].name = BuildLines(inst.script)[i])
        => inst.exc = "RuntimeError" /\ ~inst.successMsg

----------------------------------------------------------------------------
(* SpecCallbacks: the callback registry of a process *)

InitCallbacks ==
    /\ IdleCreate
    /\ IdleInstall
    /\ IdleCallbacks
    /\ IdleExpand

NextCallbacks ==
    \/ Add
    \/ Clear
    \/ Apply

SpecCallbacks == InitCallbacks /\ [][NextCallbacks]_vars

\* the callbacks in force, system ones first, each scope in the order of
\* its add() calls
RegisteredOrder ==
    LET name(q) == [k \in 1..Len(q) |-> q[k].callback]
    IN  name(SelectSeq(regLog, LAMBDA e : e.system))
        \o name(SelectSeq(regLog, LAMBDA e : ~e.system))

\* C8: after any interleaving of system and user add() calls, apply(line)
\* runs the system callbacks in the order they were registered and then the
\* user callbacks in the order they were registered; with one system
\* callback S and one user callback U the result is U(S(line)), also when U
\* was registered first.
C8_SystemCallbacksFirst ==
    applied.done =>
        LET r == CallEach(RegisteredOrder, applied.line)
        IN  /\ applied.exc = r.exc
            /\ applied.exc = "" => applied.result = r.line

\* user callback "B" was registered before system callback "A", and apply
\* gave B(A(svn(line)))
C8_Witness ==
    /\ applied.done
    /\ regLog = <<[callback |-> "svn", system |-> TRUE],
                  [callback |-> "B", system |-> FALSE],
                  [callback |-> "A", system |-> TRUE]>>
    /\ applied.line = <<"svn", " ", "co", " ", "/tags/svn", "2_1">>
    /\ applied.result = <<"svn", " ", "co", " ", "/trunk -r ", "2_1", "A", "B">>

\* the record of the registrations after clear(user, system)
ClearedLog(user, system) ==
    SelectSeq(regLog, LAMBDA e : IF e.system THEN ~system ELSE ~user)

\* C27: the default system callback is registered exactly once at start-up,
\* and in every step after it: clear() with its default arguments removes
\* every user callback and leaves the system callbacks unchanged,
\* clear(user=False, system=True) removes every system callback and leaves
\* the user callbacks unchanged, and add() to one scope appends to the list
\* of that scope and never changes the list of the other scope.
C27_ScopesAreIndependent ==
    /\ callbacks = <<"svn">> /\ user_callbacks = <<>>
    /\ [][/\ regLog' = ClearedLog(TRUE, FALSE) =>
               user_callbacks' = <<>> /\ callbacks' = callbacks
          /\ regLog' = ClearedLog(FALSE, TRUE) =>
               callbacks' = <<>> /\ user_callbacks' = user_callbacks
          /\ \A c \in Callbacks :
               /\ regLog' = Append(regLog, [callback |-> c, system |-> TRUE]) =>
                    /\ callbacks' = Append(callbacks, c)
                    /\ user_callbacks' = user_callbacks
               /\ regLog' = Append(regLog, [callback |-> c, system |-> FALSE]) =>
                    /\ user_callbacks' = Append(user_callbacks, c)
                    /\ callbacks' = callbacks]_vars

\* two user callbacks were added and the system callbacks were cleared
C27_Witness ==
    /\ callbacks = <<>>
    /\ user_callbacks = <<"A", "B">>
    /\ regLog = <<[callback |-> "A", system |-> FALSE],
                  [callback |-> "B", system |-> FALSE]>>

----------------------------------------------------------------------------
(* SpecExpand: expandBuildFile under the callbacks registered before it *)

Registries ==
    { <<>>, <<"A">>, <<"R">>, <<"E">>, <<"A", "R">>, <<"R", "A">> }

InitExpand ==
    /\ IdleCreate
    /\ IdleInstall
    /\ callbacks = StartupCallbacks.callbacks
    /\ user_callbacks \in Registries
    /\ regLog = <<[callback |-> "svn", system |-> TRUE]>>
              \o [k \in 1..Len(user_callbacks) |->
                    [callback |-> user_callbacks[k], system |-> FALSE]]
    /\ applied = NotApplied
    /\ IdleExpand

NextExpand ==
    \/ ExpandBuildFile
    \/ ExpandAgain
    \/ Substitute
    \/ OpIteration
    \/ WriteLine

SpecExpand == InitExpand /\ [][NextExpand]_vars

\* every line written so far came from the input line with its number, and
\* a line whose callbacks raised RuntimeError was written as the
\* substitutions left it, with a warning
LinesWrittenInOrder ==
    /\ Len(xp.hist) = Len(xp.ofd)
    /\ xp.pc \in {"subst", "op", "done"} => Len(xp.ofd) = xp.lineNo - 1
    /\ xp.pc = "done" => Len(xp.ofd) = Len(xp.ifd)
    /\ \A k \in 1..Len(xp.hist) :
          /\ xp.hist[k].lineNo = k
          /\ ApplyCallbacks(callbacks, user_callbacks, xp.hist[k].subst).exc
                = "RuntimeError"
             => xp.hist[k].warned /\ xp.ofd[k] = xp.hist[k].subst

C10_UnknownOperationIsSkipped ==
    [][(xp.pc = "op" /\ Head(xp.op) \notin SupportedOps)
          => (xp'.value = xp.value /\ Len(xp'.op) < Len(xp.op))]_vars

\* C11: when a token names a variable that has no binding (absent from the
\* bindings, or bound to an empty value), the expanded line has the
\* upper-cased name of the variable in place of the token, and exactly one
\* diagnostic is emitted for it.
C11_UnboundVariableExpandsToItsName ==
    [][(/\ xp.pc = "subst"
        /\ xp.rest # <<>>
        /\ Head(xp.rest).kind = "tok"
        /\ Head(xp.rest).op = <<>>
        /\ ~Head(xp.rest).dollar
        /\ LET var == Upper(Head(xp.rest).var)
           IN  ~(var \in DOMAIN xp.builderVars /\ Truthy(xp.builderVars[var])))
          => /\ xp'.cur = xp.cur \o Upper(Head(xp.rest).var)
             /\ xp'.diag = xp.diag + 1]_vars

\* the text of a line whose tokens are all of the form @VAR@ with VAR in the
\* bindings bv: each token replaced by its value, or by its name if it has
\* none
RECURSIVE PlainText(_, _)
PlainText(L, bv) ==
    IF L = <<>> THEN <<>>
    ELSE LET p == Head(L)
         IN  (IF p.kind = "text" THEN p.text
              ELSE IF Truthy(bv[p.var]) THEN bv[p.var] ELSE p.var)
             \o PlainText(Tail(L), bv)

\* the line with @REPOVERSION@ for every @VERSION@
WithRepoVersion(L) ==
    [k \in 1..Len(L) |->
        IF IsTok(L[k], VERSION) THEN Tok(FALSE, REPOVERSION, <<>>) ELSE L[k]]

\* the line begins with "hg up"
IsHgUpLine(L) ==
    \E i, j \in 1..Len(L) :
        /\ \A k \in 1..(i - 1) : IsWs(L[k])
        /\ IsWord(L[i], "hg")
        /\ j > i + 1
        /\ \A k \in (i + 1)..(j - 1) : IsWs(L[k])
        /\ IsWord(L[j], "up")

\* C12: a template line that is an svn or cvs checkout, or an "hg up",
\* with the version token @VERSION@ is expanded with the repository version
\* in place of the display version, also when @VERSION@ is an argument of
\* its own as in "svn checkout @SVNROOT@/tags/svn2_1/foo @VERSION@"; the
\* system callback then rewrites "/tags/svn" to "/trunk -r ".
C12_CheckoutUsesRepositoryVersion ==
    \A k \in 1..Len(xp.hist) :
        LET L == Flat(RStripLine(xp.ifd[k]))
        IN  (IsCheckoutLine(L) \/ IsHgUpLine(L)) =>
                /\ xp.hist[k].subst = PlainText(WithRepoVersion(L), xp.builderVars)
                /\ user_callbacks = <<>> =>
                      xp.ofd[k] = Replace(xp.hist[k].subst, <<"/tags/svn">>,
                                          <<"/trunk -r ">>)

\* the lexemes of s from i up to the next blank
RECURSIVE WordFrom(_, _)
WordFrom(s, i) ==
    IF i > Len(s) \/ IsSpace(s[i]) THEN <<>> ELSE <<s[i]>> \o WordFrom(s, i + 1)

\* the values of the arguments name... of the text s, in the order of s
RECURSIVE ArgsFrom(_, _, _)
ArgsFrom(s, name, i) ==
    IF i > Len(s) THEN <<>>
    ELSE (IF s[i] = name THEN <<WordFrom(s, i + 1)>> ELSE <<>>)
         \o ArgsFrom(s, name, i + 1)

ArgValues(s, name) == ArgsFrom(s, name, 1)

\* the text of input line k as it stands in the template
InputText(k) == PlainText(Flat(RStripLine(xp.ifd[k])), xp.builderVars)

SconsLines ==
    {k \in 1..Len(xp.hist) : IsSconsInstall(Flat(RStripLine(xp.ifd[k])))}

\* C13 as stated: every line "scons ... install" is expanded to a line with
\* exactly one version= argument, the display version, and exactly one
\* baseversion= argument, the repository version, whether or not the input
\* line had version= or baseversion= arguments.
C13_SconsArgumentsExactlyOnce ==
    \A k \in SconsLines :
        /\ ArgValues(xp.hist[k].subst, "version=") = <<xp.builderVars[VERSION]>>
        /\ ArgValues(xp.hist[k].subst, "baseversion=")
              = <<xp.builderVars[REPOVERSION]>>

\* C13, amended: every line "scons ... install" is expanded to a line with
\* exactly one version= argument, the display version; a baseversion=
\* argument of the input line is kept as it is, and an input line without
\* one gets exactly one, the repository version.  So the expansion of an
\* expanded line has one of each.
C13_SconsKeepsGivenBaseversion ==
    \A k \in SconsLines :
        /\ ArgValues(xp.hist[k].subst, "version=") = <<xp.builderVars[VERSION]>>
        /\ ArgValues(xp.hist[k].subst, "baseversion=")
              = IF ArgValues(InputText(k), "baseversion=") = <<>>
                THEN <<xp.builderVars[REPOVERSION]>>
                ELSE ArgValues(InputText(k), "baseversion=")

\* an expanded scons line was expanded again and has one version= and one
\* baseversion= argument
C13_Witness ==
    /\ xp.pc = "done"
    /\ Len(xp.ifd) = 1
    /\ 1 \in SconsLines
    /\ ArgValues(InputText(1), "version=") = <<VersionName>>
    /\ ArgValues(InputText(1), "baseversion=") = <<RepoVersionName>>
    /\ ArgValues(xp.hist[1].subst, "version=") = <<VersionName>>
    /\ ArgValues(xp.hist[1].subst, "baseversion=") = <<RepoVersionName>>

\* C17: a second call of expandBuildFile with the same template, product,
\* versions and initial bindings, in the same environment and under the
\* same callbacks, writes what the first call wrote, also when it is given
\* the bindings object in which the first call has stored its guesses.
C17_SameCallSameOutput ==
    (xp.run = 2 /\ xp.pc \in {"done", "aborted"})
        => /\ xp.ofd = xp.first.ofd
           /\ xp.exc = xp.first.exc

\* @CVSROOT.title()@ was expanded twice with $CVSROOT set, the second time
\* with the bindings that hold the guess of the first
C17_Witness ==
    /\ xp.run = 2
    /\ xp.reused
    /\ xp.pc = "done"
    /\ xp.roots.env = <<"e", "n", "v">>
    /\ xp.ifd = << <<Tok(FALSE, CVSROOT, <<"title()">>)>> >>
    /\ xp.ofd = << <<"E", "n", "v">> >>
    /\ xp.first.ofd = xp.ofd

\* every operation of the chain is supported and can be carried out
ChainSupported(op) ==
    \A k \in 1..Len(op) :
        op[k] = "." \/ (op[k] \in SupportedOps /\ ~BadPattern(op[k]))

\* what one operation makes of a value
ApplyOp(o, v) ==
    CASE o \in ReplaceOps \cup SubOps -> Replace(v, OldOf(o), NewOf(o))
      [] o = "lower()" -> Lower(v)
      [] o = "upper()" -> Upper(v)
      [] o = "title()" -> Title(v)

\* C18: for a chain of supported operations, in any order and of any
\* length, each pass of the loop applies the first operation that is left
\* to the value and removes it from the chain, so that the expansion ends
\* with the operations applied one after another from left to right.
C18_ChainAppliedLeftToRight ==
    [][(xp.pc = "op" /\ ChainSupported(xp.op))
          => /\ xp'.value = ApplyOp(Head(xp.op), xp.value)
             /\ xp'.pc = "subst" \/ Len(xp'.op) < Len(xp.op)]_vars

----------------------------------------------------------------------------
(* SpecRoots: expandBuildFile as createPackage calls it, under every source
   of CVSROOT and SVNROOT *)

InitRoots ==
    /\ IdleCreate
    /\ IdleInstall
    /\ IdleCallbacks
    /\ IdleExpand

NextRoots ==
    \/ ExpandWithRoots
    \/ Substitute
    \/ OpIteration
    \/ WriteLine

SpecRoots == InitRoots /\ [][NextRoots]_vars

\* the non-empty values that the configuration and the option give a name
Supplied(conf, opt) ==
    (IF Truthy(conf) THEN {conf} ELSE {}) \cup (IF Truthy(opt) THEN {opt} ELSE {})

\* the name is bound as the claim says
BoundByPriority(value, supplied) ==
    IF supplied # {} THEN value \in supplied
    ELSE IF xp.roots.env # NoneVal THEN value = xp.roots.env
    ELSE IF xp.roots.meta # NoneVal THEN value = xp.roots.meta
    ELSE ~Truthy(value)

\* C25: for CVSROOT and SVNROOT during expansion, a non-empty bound value
\* (of the configuration or of the option cvsroot/svnroot) is used as it is;
\* otherwise the environment variable of the same name is used; otherwise
\* the value read from the local version-control metadata; a source of
\* lower priority never overrides a value that a higher one supplied.
C25_RootsByPriority ==
    xp.given.called =>
        /\ BoundByPriority(xp.builderVars[CVSROOT],
                           Supplied(xp.given.config.cvs, xp.given.cvsroot))
        /\ BoundByPriority(xp.builderVars[SVNROOT],
                           Supplied(xp.given.config.svn, xp.given.svnroot))

\* "@CVSROOT@ @SVNROOT@" was expanded with CVSROOT bound by the
\* configuration, SVNROOT unbound, and both the environment variables and
\* the metadata there: the line has the bound value and the environment's
C25_Witness ==
    /\ xp.given.called
    /\ xp.pc = "done"
    /\ xp.given.config = [cvs |-> <<"c">>, svn |-> <<>>]
    /\ xp.given.cvsroot = <<>>
    /\ xp.given.svnroot = <<>>
    /\ xp.roots = [env |-> <<"e", "n", "v">>, meta |-> <<"m">>]
    /\ xp.ofd = << <<"c", " ", "e", "n", "v">> >>

====
